---- MODULE Spec2Model ----
(***************************************************************************)
(* A model of the ns-nano PostgreSQL tools:                                *)
(*   create_db.py  the bulk loader (coordinates, metadata, annotations)    *)
(*   check_db.py   the feature verifier (isolated capability probes)       *)
(* Strings that the code inspects character by character (column names,    *)
(* identifiers written to the COPY stream) are sequences of one-character  *)
(* strings.  Source cells are tokens naming the Python object in the cell. *)
(***************************************************************************)
EXTENDS Integers, Sequences, FiniteSets, TLC

VARIABLES
    cfg,            \* parse_args(): [if_exists, batch_cols, enable_json]
    files,          \* the Parquet files present in --data-dir
    coordsDf,       \* coordinates.parquet as a data frame
    metaDf,         \* metadata.parquet as a data frame
    annDf,          \* annotations.parquet as a data frame
    db,             \* the schema's relations as the session sees them
    snap,           \* the relations at the start of the open transaction
    pc,             \* position of the loader
    err,            \* the exception that ended the run
    run,            \* number of the current invocation of the loader
    db0,            \* the relations when the current invocation started
    bad,            \* build_coordinates: the drop count it prints
    staged,         \* build_coordinates: the frame handed to to_sql
    ix,             \* build_annotations: loop variable i
    total_inserted, \* build_annotations: total_inserted
    calls,          \* build_annotations: the row lists handed to copy_terms
    sid_arr,        \* build_annotations: sid_arr
    cid_arr,        \* build_annotations: cid_arr
    rows_in,        \* copy_terms: rows
    buf,            \* copy_terms: buf
    nprobes,        \* check_db: the number of probes run so far
    summary,        \* check_db: summary
    ensured,        \* check_db: what ensure_extension returned, by extension
    printed,        \* check_db: the summaries printed
    log,            \* the backend: its answer to each statement, on its own merits
    ext,            \* the backend: the extensions in pg_extension
    txfail          \* the backend: the session's transaction is in the failed state

vars == << cfg, files, coordsDf, metaDf, annDf, db, snap, pc, err, run, db0,
           bad, staged, ix, total_inserted, calls, sid_arr, cid_arr,
           rows_in, buf, nprobes, summary, ensured, printed, log, ext, txfail >>

----------------------------------------------------------------------------
(* Bounds of the model *)

NRows == 2
NCols == 3
MaxNonZero == 2
MaxStrLen == 2
MaxRuns == 2

----------------------------------------------------------------------------
(* Characters and strings *)

Min(a, b) == IF a < b THEN a ELSE b

\* str.lower()
Lower(c) ==
    CASE c = "X" -> "x"
      [] c = "Y" -> "y"
      [] c = "N" -> "n"
      [] c = "T" -> "t"
      [] OTHER -> c

\* the characters str.strip() removes
IsSpace(c) == c \in {" ", "\t", "\n"}

RECURSIVE LStrip(_)
LStrip(s) ==
    IF s # <<>> /\ IsSpace(Head(s)) THEN LStrip(Tail(s)) ELSE s

RECURSIVE RStrip(_)
RStrip(s) ==
    IF s # <<>> /\ IsSpace(s[Len(s)]) THEN RStrip(SubSeq(s, 1, Len(s) - 1)) ELSE s

Strip(s) == RStrip(LStrip(s))

LowerStr(s) == [k \in 1..Len(s) |-> Lower(s[k])]

StartsWith(s, p) == Len(s) >= Len(p) /\ SubSeq(s, 1, Len(p)) = p

RECURSIVE Flatten(_)
Flatten(ss) ==
    IF ss = <<>> THEN <<>> ELSE Head(ss) \o Flatten(Tail(ss))

----------------------------------------------------------------------------
(* Column names *)

TermsPrefix == <<"t", "e", "r", "m", "s", "_">>
StudyIdCol == <<"s", "t", "u", "d", "y", "_", "i", "d">>
ContrastIdCol == <<"c", "o", "n", "t", "r", "a", "s", "t", "_", "i", "d">>
IdCol == <<"i", "d">>
OtherCol == <<"o", "t", "h", "e", "r">>

\* build_annotations: fixed
Fixed == {IdCol, StudyIdCol, ContrastIdCol}

\* length of the longest run of [^_] characters of s that starts at position k
RECURSIVE RunNonUnderscore(_, _)
RunNonUnderscore(s, k) ==
    IF k <= Len(s) /\ s[k] # "_" THEN 1 + RunNonUnderscore(s, k + 1) ELSE 0

\* re.sub(r"^terms_[^_]*__", "", c): the greedy run cannot give a character back,
\* because the character after it has to be an underscore
StripVocab(c) ==
    IF StartsWith(c, TermsPrefix)
    THEN LET j == Len(TermsPrefix) + RunNonUnderscore(c, Len(TermsPrefix) + 1)
         IN  IF j + 2 <= Len(c) /\ c[j + 1] = "_" /\ c[j + 2] = "_"
             THEN SubSeq(c, j + 3, Len(c))
             ELSE c
    ELSE c

\* the term a column stands for
TermOf(c) == LowerStr(Strip(StripVocab(c)))

\* build_annotations: term_cols, each column by its position in df.columns
RECURSIVE TermColsFrom(_, _)
TermColsFrom(df, j) ==
    IF j > Len(df.columns) THEN <<>>
    ELSE (IF df.columns[j] \notin Fixed /\ StartsWith(df.columns[j], TermsPrefix)
          THEN <<j>> ELSE <<>>) \o TermColsFrom(df, j + 1)

TermCols(df) == TermColsFrom(df, 1)

----------------------------------------------------------------------------
(* Cell values: pd.to_numeric(errors="coerce") and the NumPy tests *)

Num(v) == [k |-> "fin", v |-> v]
NaN == [k |-> "nan", v |-> 0]
PosInf == [k |-> "inf", v |-> 1]
NegInf == [k |-> "inf", v |-> -1]

ToNumeric(x) ==
    CASE x = "0" -> Num(0)
      [] x = "1" -> Num(1)
      [] x = "2" -> Num(2)
      [] x = "3" -> Num(3)
      [] x = "-1" -> Num(-1)
      [] x = "nan" -> NaN
      [] x = "inf" -> PosInf
      [] x = "-inf" -> NegInf
      [] OTHER -> NaN

\* np.isfinite
IsFinite(n) == n.k = "fin"

\* n > 0 on floats: false for NaN, true for +inf
GtZero(n) == (n.k = "fin" /\ n.v > 0) \/ (n.k = "inf" /\ n.v > 0)

----------------------------------------------------------------------------
(* Optional values *)

None == [some |-> FALSE, v |-> <<>>]
Some(s) == [some |-> TRUE, v |-> s]

----------------------------------------------------------------------------
(* The COPY text stream: copy_terms writes it, the backend reads it *)

DigitChars == <<"0", "1", "2", "3", "4", "5", "6", "7", "8", "9">>

\* f"{weight}" of a float64 with an integral value
FormatWeight(w) == <<DigitChars[w + 1], ".", "0">>

\* copy_terms: one line of buf
SerializeRow(r) ==
    r.study_id \o <<"\t">>
      \o (IF r.contrast_id.some THEN r.contrast_id.v ELSE <<"\\", "N">>) \o <<"\t">>
      \o r.term \o <<"\t">>
      \o FormatWeight(r.weight) \o <<"\n">>

\* copy_terms: buf
Serialize(rows) == Flatten([k \in 1..Len(rows) |-> SerializeRow(rows[k])])

\* The backend's reader: a backslash takes the next character with it, so an
\* escaped separator does not split; the pieces keep their backslashes.
RECURSIVE SplitOn(_, _, _, _)
SplitOn(s, sep, cur, acc) ==
    IF s = <<>> THEN Append(acc, cur)
    ELSE IF Head(s) = "\\" /\ Len(s) >= 2
         THEN SplitOn(Tail(Tail(s)), sep, cur \o <<s[1], s[2]>>, acc)
    ELSE IF Head(s) = sep
         THEN SplitOn(Tail(s), sep, <<>>, Append(acc, cur))
    ELSE SplitOn(Tail(s), sep, Append(cur, Head(s)), acc)

\* rows end at an unescaped newline; data after the last newline is a row too
CopyLines(b) ==
    LET parts == SplitOn(b, "\n", <<>>, <<>>)
    IN  IF parts[Len(parts)] = <<>> THEN SubSeq(parts, 1, Len(parts) - 1) ELSE parts

EscChar(c) ==
    CASE c = "t" -> "\t"
      [] c = "n" -> "\n"
      [] OTHER -> c

\* de-escaping of a field; a backslash that ends the data is dropped
RECURSIVE Unescape(_)
Unescape(f) ==
    IF f = <<>> THEN <<>>
    ELSE IF Head(f) = "\\"
         THEN IF Len(f) >= 2 THEN <<EscChar(f[2])>> \o Unescape(Tail(Tail(f))) ELSE <<>>
    ELSE <<Head(f)>> \o Unescape(Tail(f))

\* the reserved token is recognised before de-escaping
ParseField(f) == IF f = <<"\\", "N">> THEN None ELSE Some(Unescape(f))

\* float8 input of the forms the stream can hold
ParseWeight(f) ==
    IF \E w \in 0..9 : f = FormatWeight(w) \/ f = <<DigitChars[w + 1]>>
    THEN [ok |-> TRUE,
          v |-> CHOOSE w \in 0..9 : f = FormatWeight(w) \/ f = <<DigitChars[w + 1]>>]
    ELSE [ok |-> FALSE, v |-> 0]

\* one row of COPY annotations_terms (study_id, contrast_id, term, weight):
\* four columns, NOT NULL on study_id, term and weight
ParseLine(line) ==
    LET fs == SplitOn(line, "\t", <<>>, <<>>)
    IN  IF Len(fs) # 4 THEN [ok |-> FALSE, row |-> <<>>]
        ELSE LET s == ParseField(fs[1])
                 c == ParseField(fs[2])
                 t == ParseField(fs[3])
                 w == ParseField(fs[4])
                 wv == ParseWeight(w.v)
             IN  IF s.some /\ t.some /\ w.some /\ wv.ok
                 THEN [ok |-> TRUE,
                       row |-> [study_id |-> s.v, contrast_id |-> c,
                                term |-> t.v, weight |-> wv.v]]
                 ELSE [ok |-> FALSE, row |-> <<>>]

\* COPY ... FROM STDIN WITH (FORMAT text): every row is read or the statement fails
CopyParse(b) ==
    LET ls == CopyLines(b)
        ps == [k \in 1..Len(ls) |-> ParseLine(ls[k])]
    IN  IF \A k \in 1..Len(ls) : ps[k].ok
        THEN [ok |-> TRUE, rows |-> [k \in 1..Len(ls) |-> ps[k].row]]
        ELSE [ok |-> FALSE, rows |-> <<>>]

----------------------------------------------------------------------------
(* The schema's relations *)

Absent ==
    [exists |-> FALSE, rows |-> <<>>, idx |-> {}, pk |-> FALSE, trig |-> FALSE,
     cols |-> <<>>]

\* CREATE TABLE
NewTable(cols) ==
    [exists |-> TRUE, rows |-> <<>>, idx |-> {}, pk |-> FALSE, trig |-> FALSE,
     cols |-> cols]

EmptyDb ==
    [coordinates |-> Absent, coordinates_stage |-> Absent, metadata |-> Absent,
     annotations_terms |-> Absent, annotations_json |-> Absent]

NoSnap == [open |-> FALSE, db |-> EmptyDb]

\* engine.begin(): the block's statements commit together or not at all
Begin(d) == [open |-> TRUE, db |-> d]

\* what a failed block leaves behind
RolledBack == IF snap.open THEN snap.db ELSE db

\* what other sessions see
Committed == RolledBack

NoErr == [kind |-> "none", items |-> <<>>, at |-> ""]

AnnTermsCols == <<"study_id", "contrast_id", "term", "weight">>
AnnJsonCols == <<"study_id", "contrast_id", "terms">>
AnnTermIndexes ==
    {"idx_annotations_terms_term", "idx_annotations_terms_study",
     "idx_annotations_terms_term_study"}

----------------------------------------------------------------------------
(* Exceptions and the groups of variables an action leaves alone *)

srcVars == << files, coordsDf, metaDf, annDf >>
runVars == << cfg, run, db0 >>
coordVars == << bad, staged >>
annVars == << ix, total_inserted, calls, sid_arr, cid_arr >>
copyVars == << rows_in, buf >>
probeVars == << nprobes, summary, ensured, printed, log, ext, txfail >>

\* an exception leaves the function: the open block rolls back, the run ends
Raise(kind, items) ==
    /\ pc' = "aborted"
    /\ err' = [kind |-> kind, items |-> items, at |-> pc]
    /\ db' = RolledBack
    /\ snap' = NoSnap

----------------------------------------------------------------------------
(* build_annotations: the sparse matrix batcher *)

\* df[c] at row r, c the position of the column
Cell(df, r, c) == df.cells[r][c]

\* a slice one column short: term_cols[i:i+batch_cols-1]
BatchSliceShort(tc, i, b) == SubSeq(tc, i + 1, Min(i + b - 1, Len(tc)))

\* cols = term_cols[i:i+batch_cols]
BatchSlice(tc, i, b) == SubSeq(tc, i + 1, Min(i + b, Len(tc)))

\* (pd.to_numeric(df[c], errors="coerce") > 0).any()
AnyPositive(df, c) == \E r \in 1..df.nrows : GtZero(ToNumeric(Cell(df, r, c)))

\* nonempty
Nonempty(df, cols) == SelectSeq(cols, LAMBDA c : AnyPositive(df, c))

\* the mask without the finiteness test: col > 0
MaskPositiveOnly(n) == GtZero(n)

\* mask = np.isfinite(col) & (col > 0)
Mask(n) == IsFinite(n) /\ GtZero(n)

\* zip(sid_arr[idx], cid_arr[idx], [term]*len(idx), col[idx].astype(float))
RECURSIVE ColRows(_, _, _, _, _)
ColRows(df, sids, cids, c, r) ==
    IF r > df.nrows THEN <<>>
    ELSE (IF Mask(ToNumeric(Cell(df, r, c)))
          THEN << [study_id |-> sids[r], contrast_id |-> cids[r],
                   term |-> TermOf(df.columns[c]), weight |-> ToNumeric(Cell(df, r, c)).v] >>
          ELSE <<>>)
         \o ColRows(df, sids, cids, c, r + 1)

\* term_rows of one batch
TermRows(df, sids, cids, cols) ==
    LET ne == Nonempty(df, cols)
    IN  Flatten([k \in 1..Len(ne) |-> ColRows(df, sids, cids, ne[k], 1)])

\* copy_expert and commit: the backend reads the stream b; up is whether it is
\* able to take it at all
CopyFrom(d, b, up) ==
    LET res == CopyParse(b)
    IN  IF up /\ res.ok /\ d.annotations_terms.exists
        THEN [ok |-> TRUE,
              db |-> [d EXCEPT !.annotations_terms.rows = @ \o res.rows]]
        ELSE [ok |-> FALSE, db |-> d]

\* a writer that commits on the way out, whatever happened: the rows read
\* before the failure stay
CopyTermsCommitAlways(d, rows, up) ==
    LET res == CopyFrom(d, Serialize(rows), up)
    IN  IF res.ok THEN res
        ELSE [ok |-> FALSE,
              db |-> [d EXCEPT !.annotations_terms.rows = @ \o SubSeq(rows, 1, 1)]]

\* copy_terms: the stream is read and committed as one unit, or nothing is
CopyTerms(d, rows, up) == CopyFrom(d, Serialize(rows), up)

\* two rows that a unique index on (study_id, contrast_id, term) refuses:
\* rows with a NULL contrast_id never conflict
HasDuplicateKey(rows) ==
    \E a, b \in 1..Len(rows) :
        /\ a < b
        /\ rows[a].study_id = rows[b].study_id
        /\ rows[a].contrast_id.some /\ rows[b].contrast_id.some
        /\ rows[a].contrast_id = rows[b].contrast_id
        /\ rows[a].term = rows[b].term

\* a key that is never promoted to PRIMARY KEY checks no NULL
NullKeyUnchecked(rows) == FALSE

\* a PRIMARY KEY sets its columns NOT NULL, which fails on a NULL
HasNullKey(rows) == \E a \in 1..Len(rows) : ~rows[a].contrast_id.some

\* jsonb_object_agg(term, weight) ... GROUP BY study_id, contrast_id;
\* the groups are listed in the order of their first row
RECURSIVE GroupKeys(_, _)
GroupKeys(rows, seen) ==
    IF rows = <<>> THEN <<>>
    ELSE LET key == <<Head(rows).study_id, Head(rows).contrast_id>>
         IN  IF key \in seen THEN GroupKeys(Tail(rows), seen)
             ELSE <<key>> \o GroupKeys(Tail(rows), seen \cup {key})

JsonDocs(rows) ==
    LET keys == GroupKeys(rows, {})
    IN  [k \in 1..Len(keys) |->
            [study_id |-> keys[k][1], contrast_id |-> keys[k][2],
             terms |-> {<<rows[a].term, rows[a].weight>> : a \in
                          {a \in 1..Len(rows) :
                              <<rows[a].study_id, rows[a].contrast_id>> = keys[k]}}]]

\* lines 200-204
AnnPrepare ==
    /\ pc = "ann_prepare"
    /\ IF TermCols(annDf) = <<>>
       THEN Raise("RuntimeError", <<>>)
       ELSE pc' = "ann_create" /\ UNCHANGED << db, snap, err >>
    /\ UNCHANGED << copyVars, probeVars, srcVars, runVars, coordVars, annVars >>

\* lines 206-225: one block
AnnCreate ==
    /\ pc = "ann_create"
    /\ db' = [db EXCEPT
                !.annotations_terms = NewTable(AnnTermsCols),
                !.annotations_json =
                    IF cfg.enable_json THEN [NewTable(AnnJsonCols) EXCEPT !.pk = TRUE]
                    ELSE @]
    /\ pc' = "ann_ids"
    /\ UNCHANGED << snap, err, copyVars, probeVars, srcVars, runVars, coordVars, annVars >>

\* lines 227-233
AnnIds ==
    /\ pc = "ann_ids"
    /\ IF StudyIdCol \notin { annDf.columns[k] : k \in 1..Len(annDf.columns) }
       THEN /\ Raise("KeyError", <<StudyIdCol>>)
            /\ UNCHANGED annVars
       ELSE /\ sid_arr' = annDf.sid
            /\ cid_arr' =
                 IF ContrastIdCol \in { annDf.columns[k] : k \in 1..Len(annDf.columns) }
                 THEN annDf.cid
                 ELSE [r \in 1..annDf.nrows |-> None]
            /\ total_inserted' = 0
            /\ ix' = 0
            /\ calls' = <<>>
            /\ pc' = "ann_loop"
            /\ UNCHANGED << db, snap, err >>
    /\ UNCHANGED << copyVars, probeVars, srcVars, runVars, coordVars >>

\* lines 235-257: one pass of the loop; the backend takes the stream or refuses it
AnnBatch ==
    /\ pc = "ann_loop"
    /\ ix < Len(TermCols(annDf))
    /\ LET cols == BatchSlice(TermCols(annDf), ix, cfg.batch_cols)
           term_rows == TermRows(annDf, sid_arr, cid_arr, cols)
       IN  IF term_rows = <<>>
           THEN /\ ix' = ix + cfg.batch_cols
                /\ UNCHANGED << db, snap, err, pc, total_inserted, calls >>
           ELSE \E up \in BOOLEAN :
                  LET res == CopyTerms(db, term_rows, up)
                  IN  /\ calls' = Append(calls, term_rows)
                      /\ IF res.ok
                         THEN /\ db' = res.db
                              /\ total_inserted' = total_inserted + Len(term_rows)
                              /\ ix' = ix + cfg.batch_cols
                              /\ UNCHANGED << snap, err, pc >>
                         ELSE /\ pc' = "aborted"
                              /\ err' = [kind |-> "DataError", items |-> <<>>, at |-> pc]
                              /\ db' = res.db
                              /\ snap' = NoSnap
                              /\ UNCHANGED << ix, total_inserted >>
    /\ UNCHANGED << copyVars, probeVars, srcVars, runVars, coordVars, sid_arr, cid_arr >>

\* lines 260-264: the loop is over; the index block opens
AnnIndex ==
    /\ pc = "ann_loop"
    /\ ix >= Len(TermCols(annDf))
    /\ snap' = Begin(db)
    /\ db' = [db EXCEPT !.annotations_terms.idx = @ \cup AnnTermIndexes]
    /\ pc' = "ann_unique"
    /\ UNCHANGED << err, copyVars, probeVars, srcVars, runVars, coordVars, annVars >>

\* line 266
AnnUnique ==
    /\ pc = "ann_unique"
    /\ IF HasDuplicateKey(db.annotations_terms.rows)
       THEN Raise("IntegrityError", <<>>)
       ELSE /\ db' = [db EXCEPT !.annotations_terms.idx = @ \cup {"ux_annotations_terms"}]
            /\ pc' = "ann_pk"
            /\ UNCHANGED << snap, err >>
    /\ UNCHANGED << copyVars, probeVars, srcVars, runVars, coordVars, annVars >>

\* line 267
AnnPk ==
    /\ pc = "ann_pk"
    /\ IF HasNullKey(db.annotations_terms.rows)
       THEN Raise("IntegrityError", <<>>)
       ELSE /\ db' = [db EXCEPT !.annotations_terms.pk = TRUE]
            /\ pc' = "ann_json"
            /\ UNCHANGED << snap, err >>
    /\ UNCHANGED << copyVars, probeVars, srcVars, runVars, coordVars, annVars >>

\* lines 269-287: the optional documents, then the block commits
AnnJson ==
    /\ pc = "ann_json"
    /\ db' = IF cfg.enable_json
             THEN [db EXCEPT
                     !.annotations_json.rows = @ \o JsonDocs(db.annotations_terms.rows),
                     !.annotations_json.idx = @ \cup {"idx_annotations_json_terms_gin"}]
             ELSE db
    /\ snap' = NoSnap
    /\ pc' = "done"
    /\ UNCHANGED << err, copyVars, probeVars, srcVars, runVars, coordVars, annVars >>

----------------------------------------------------------------------------
(* build_coordinates *)

XCol == <<"x">>
YCol == <<"y">>
ZCol == <<"z">>

\* must_have
MustHave == << StudyIdCol, XCol, YCol, ZCol >>

\* --srid
Srid == 4326

CoordStageCols == <<"study_id", "x", "y", "z">>
CoordCols == <<"study_id", "geom">>
CoordIndexes == {"idx_coordinates_study", "idx_coordinates_geom_gist"}

ColumnSet(df) == { df.columns[k] : k \in 1..Len(df.columns) }

\* missing = [c for c in must_have if c not in df.columns]
Missing(df) == SelectSeq(MustHave, LAMBDA c : c \notin ColumnSet(df))

\* is_finite_series on one value
is_finite_series(x) == IsFinite(ToNumeric(x))

\* finite_mask at row r
FiniteMask(df, r) ==
    /\ is_finite_series(df.rows[r].x)
    /\ is_finite_series(df.rows[r].y)
    /\ is_finite_series(df.rows[r].z)

\* df[finite_mask].reset_index(drop=True), study_id as str, x, y, z as floats
FiniteFrame(df) ==
    LET kept == SelectSeq([r \in 1..df.nrows |-> r], LAMBDA r : FiniteMask(df, r))
    IN  [k \in 1..Len(kept) |->
            [study_id |-> df.rows[kept[k]].study_id,
             x |-> ToNumeric(df.rows[kept[k]].x).v,
             y |-> ToNumeric(df.rows[kept[k]].y).v,
             z |-> ToNumeric(df.rows[kept[k]].z).v]]

\* ST_SetSRID(ST_MakePoint(x, y, z), srid)
MakePoint(s) == [study_id |-> s.study_id, geom |-> <<s.x, s.y, s.z, Srid>>]

\* INSERT INTO coordinates SELECT ... FROM coordinates_stage
FromStage(stage) == [k \in 1..Len(stage.rows) |-> MakePoint(stage.rows[k])]

\* lines 73-86
CoordPrepare ==
    /\ pc = "coord_prepare"
    /\ IF Missing(coordsDf) # <<>>
       THEN /\ Raise("KeyError", Missing(coordsDf))
            /\ UNCHANGED coordVars
       ELSE /\ bad' = coordsDf.nrows - Len(FiniteFrame(coordsDf))
            /\ staged' = FiniteFrame(coordsDf)
            /\ pc' = "coord_stage"
            /\ UNCHANGED << db, snap, err >>
    /\ UNCHANGED << copyVars, probeVars, srcVars, runVars, annVars >>

\* lines 88-99 without the DROP of coordinates_stage
CoordStageKeepsStage ==
    /\ pc = "coord_stage"
    /\ db' = [db EXCEPT
                !.coordinates = IF cfg.if_exists = "replace" THEN Absent ELSE @,
                !.coordinates_stage = IF @.exists THEN @ ELSE NewTable(CoordStageCols)]
    /\ pc' = "coord_to_sql"
    /\ UNCHANGED << snap, err, copyVars, probeVars, srcVars, runVars, coordVars, annVars >>

\* lines 88-99: one block
CoordStage ==
    /\ pc = "coord_stage"
    /\ LET dropped == IF cfg.if_exists = "replace"
                      THEN [db EXCEPT !.coordinates = Absent,
                                      !.coordinates_stage = Absent]
                      ELSE db
       IN  db' = [dropped EXCEPT
                    !.coordinates_stage =
                        IF @.exists THEN @ ELSE NewTable(CoordStageCols)]
    /\ pc' = "coord_to_sql"
    /\ UNCHANGED << snap, err, copyVars, probeVars, srcVars, runVars, coordVars, annVars >>

\* lines 101-103: to_sql(if_exists="append") commits on its own
CoordToSql ==
    /\ pc = "coord_to_sql"
    /\ db' = [db EXCEPT !.coordinates_stage.rows = @ \o staged]
    /\ pc' = "coord_create"
    /\ UNCHANGED << snap, err, copyVars, probeVars, srcVars, runVars, coordVars, annVars >>

\* lines 105-113 with the indexes built together with the table
CoordCreateIndexed ==
    /\ pc = "coord_create"
    /\ snap' = Begin(db)
    /\ LET made == IF db.coordinates.exists THEN db
                   ELSE [db EXCEPT !.coordinates = NewTable(CoordCols)]
       IN  db' = [made EXCEPT
                    !.coordinates.rows = IF cfg.if_exists = "replace" THEN <<>> ELSE @,
                    !.coordinates.idx = @ \cup CoordIndexes]
    /\ pc' = "coord_insert"
    /\ UNCHANGED << err, copyVars, probeVars, srcVars, runVars, coordVars, annVars >>

\* lines 105-113: the block opens; CREATE TABLE IF NOT EXISTS, TRUNCATE
CoordCreate ==
    /\ pc = "coord_create"
    /\ snap' = Begin(db)
    /\ LET made == IF db.coordinates.exists THEN db
                   ELSE [db EXCEPT !.coordinates = NewTable(CoordCols)]
       IN  db' = IF cfg.if_exists = "replace"
                 THEN [made EXCEPT !.coordinates.rows = <<>>]
                 ELSE made
    /\ pc' = "coord_insert"
    /\ UNCHANGED << err, copyVars, probeVars, srcVars, runVars, coordVars, annVars >>

\* lines 114-120
CoordInsert ==
    /\ pc = "coord_insert"
    /\ db' = [db EXCEPT !.coordinates.rows = @ \o FromStage(db.coordinates_stage)]
    /\ pc' = "coord_index"
    /\ UNCHANGED << snap, err, copyVars, probeVars, srcVars, runVars, coordVars, annVars >>

\* lines 121-126: the indexes, ANALYZE, DROP of the staging table; the block commits
CoordIndex ==
    /\ pc = "coord_index"
    /\ db' = [db EXCEPT !.coordinates.idx = @ \cup CoordIndexes,
                        !.coordinates_stage = Absent]
    /\ snap' = NoSnap
    /\ pc' = "meta_create"
    /\ UNCHANGED << err, copyVars, probeVars, srcVars, runVars, coordVars, annVars >>

----------------------------------------------------------------------------
(* build_metadata *)

FtsCol == <<"f", "t", "s">>
MetaIndexes == {"idx_metadata_fts"}

\* s.replace(" ", "_")
Underscore(s) == [k \in 1..Len(s) |-> IF s[k] = " " THEN "_" ELSE s[k]]

\* str(c).strip().lower().replace(" ", "_")
NormalizeColumn(c) == Underscore(LowerStr(Strip(c)))

\* df.columns after line 135
MetaColumns(df) == [j \in 1..Len(df.columns) |-> NormalizeColumn(df.columns[j])]

\* cols, lines 140-146
MetaColDefs(df) ==
    [j \in 1..Len(df.columns) |->
        [name |-> MetaColumns(df)[j],
         type |-> IF df.numeric[j] THEN "double precision" ELSE "text"]]
      \o << [name |-> FtsCol, type |-> "tsvector"] >>

\* CREATE TABLE refuses a column list that names a column twice
DuplicateColumn(defs) ==
    \E a, b \in 1..Len(defs) : a # b /\ defs[a].name = defs[b].name

\* the position of the column called name in the table, 0 if it has none
ColumnAt(t, name) ==
    IF \E j \in 1..Len(t.cols) : t.cols[j].name = name
    THEN CHOOSE j \in 1..Len(t.cols) : t.cols[j].name = name
    ELSE 0

\* text_cols, line 157: positions of the table's text columns other than fts
MetaTextCols(t) ==
    SelectSeq([j \in 1..Len(t.cols) |-> j],
              LAMBDA j : t.cols[j].name # FtsCol /\ t.cols[j].type = "text")

\* to_tsvector over coalesce(c, '') of the text columns
ToTsvector(vals, tcs) ==
    Some([k \in 1..Len(tcs) |-> IF vals[tcs[k]] = "NULL" THEN "" ELSE vals[tcs[k]]])

\* the INSERT of to_sql is accepted: every column of the frame is a column of
\* the table and no text goes into a numeric column
Insertable(t, df) ==
    \A j \in 1..Len(df.columns) :
        /\ ColumnAt(t, MetaColumns(df)[j]) # 0
        /\ (~df.numeric[j]) =>
              t.cols[ColumnAt(t, MetaColumns(df)[j])].type = "text"

\* the row the table gets for row r of the frame: columns the frame does not
\* have are NULL; an installed trigger fills fts
MetaRow(t, df, r) ==
    LET vals == [j \in 1..(Len(t.cols) - 1) |->
                    IF \E k \in 1..Len(df.columns) : MetaColumns(df)[k] = t.cols[j].name
                    THEN df.cells[r][CHOOSE k \in 1..Len(df.columns) :
                                        MetaColumns(df)[k] = t.cols[j].name]
                    ELSE "NULL"]
    IN  [vals |-> vals,
         fts |-> IF t.trig THEN ToTsvector(vals, MetaTextCols(t)) ELSE None]

\* lines 137-147: one block
MetaCreate ==
    /\ pc = "meta_create"
    /\ IF DuplicateColumn(MetaColDefs(metaDf))
       THEN Raise("ProgrammingError", <<>>)
       ELSE /\ LET dropped == IF cfg.if_exists = "replace"
                              THEN [db EXCEPT !.metadata = Absent]
                              ELSE db
               IN  db' = IF dropped.metadata.exists THEN dropped
                         ELSE [dropped EXCEPT
                                 !.metadata = NewTable(MetaColDefs(metaDf))]
            /\ pc' = "meta_to_sql"
            /\ UNCHANGED << snap, err >>
    /\ UNCHANGED << copyVars, probeVars, srcVars, runVars, coordVars, annVars >>

\* lines 149-150: to_sql(if_exists="append") commits on its own
MetaToSql ==
    /\ pc = "meta_to_sql"
    /\ IF ~Insertable(db.metadata, metaDf)
       THEN Raise("ProgrammingError", <<>>)
       ELSE /\ db' = [db EXCEPT
                        !.metadata.rows =
                            @ \o [r \in 1..metaDf.nrows |-> MetaRow(db.metadata, metaDf, r)]]
            /\ pc' = "meta_fts"
            /\ UNCHANGED << snap, err >>
    /\ UNCHANGED << copyVars, probeVars, srcVars, runVars, coordVars, annVars >>

\* lines 152-172: one block
MetaFts ==
    /\ pc = "meta_fts"
    /\ LET tcs == MetaTextCols(db.metadata)
           old == db.metadata.rows
       IN  db' = IF tcs # <<>>
                 THEN [db EXCEPT
                         !.metadata.rows =
                             [k \in 1..Len(old) |->
                                 [vals |-> old[k].vals,
                                  fts |-> ToTsvector(old[k].vals, tcs)]],
                         !.metadata.idx = @ \cup MetaIndexes,
                         !.metadata.trig = TRUE]
                 ELSE db
    /\ pc' = "ann_prepare"
    /\ UNCHANGED << snap, err, copyVars, probeVars, srcVars, runVars, coordVars, annVars >>

----------------------------------------------------------------------------
(* main *)

CoordinatesFile == "coordinates.parquet"
MetadataFile == "metadata.parquet"
AnnotationsFile == "annotations.parquet"

\* the order of the load_parquet calls
LoadOrder == << CoordinatesFile, MetadataFile, AnnotationsFile >>

\* lines 294-307: the engine, ensure_schema, ensure_extensions, the sanity
\* queries; no relation of the schema is touched
MainSetup ==
    /\ pc = "main_setup"
    /\ pc' = "main_load"
    /\ UNCHANGED << db, snap, err, copyVars, probeVars, srcVars, runVars, coordVars, annVars >>

\* lines 309-314: load_parquet raises on the first file that is not there
MainLoad ==
    /\ pc = "main_load"
    /\ LET absent == SelectSeq(LoadOrder, LAMBDA f : f \notin files)
       IN  IF absent # <<>>
           THEN Raise("FileNotFoundError", << absent[1] >>)
           ELSE pc' = "coord_prepare" /\ UNCHANGED << db, snap, err >>
    /\ UNCHANGED << copyVars, probeVars, srcVars, runVars, coordVars, annVars >>

----------------------------------------------------------------------------
(* Failures that do not depend on the data *)

\* positions whose next statement goes to the backend
BackendPcs ==
    {"main_setup", "coord_stage", "coord_to_sql", "coord_create", "coord_insert",
     "coord_index", "meta_create", "meta_to_sql", "meta_fts",
     "ann_create", "ann_unique", "ann_pk", "ann_json"}

\* the backend refuses a statement (connection lost, disk full, ...): the
\* exception is not caught anywhere in create_db.py
BackendFails ==
    /\ \/ pc \in BackendPcs
       \/ pc = "ann_loop" /\ ix >= Len(TermCols(annDf))
    /\ Raise("OperationalError", <<>>)
    /\ UNCHANGED << copyVars, probeVars, srcVars, runVars, coordVars, annVars >>

----------------------------------------------------------------------------
(* Inputs *)

Range(f) == { f[k] : k \in DOMAIN f }

SidPool == << <<"s", "1">>, <<"s", "2">>, <<"s", "3">>, <<"s", "4">> >>
ContrastC1 == <<"c", "1">>

\* term columns with pairwise different terms: x, y, terms_z, w, v
DistinctTermCols ==
    << TermsPrefix \o <<"a", "_", "_", "x">>,
       TermsPrefix \o <<"a", "_", "_", "Y">>,
       TermsPrefix \o <<"z">>,
       TermsPrefix \o <<"_", "_", " ", "w">>,
       TermsPrefix \o <<"b", "_", "_", "v">> >>

\* term columns of which the first two stand for the same term x
DupTermCols ==
    << TermsPrefix \o <<"a", "_", "_", "x">>,
       TermsPrefix \o <<"b", "_", "_", "X">>,
       TermsPrefix \o <<"a", "_", "_", "y">>,
       TermsPrefix \o <<"z">>,
       TermsPrefix \o <<"c", "_", "_", "x">> >>

\* what a cell other than 0 may hold: positive numbers, a negative number, NaN,
\* infinity, a string that is no number
NonZeroCells == {"1", "2", "-1", "nan", "inf", "abc"}

\* the matrix that holds f on the cells of DOMAIN f and 0 elsewhere
SparseMatrix(n, k, f) ==
    [p \in (1..n) \X (1..k) |-> IF p \in DOMAIN f THEN f[p] ELSE "0"]

\* the sets of at most MaxNonZero cells of a matrix of n rows and k columns
SparseSupports(n, k) ==
    { S \in SUBSET ((1..n) \X (1..k)) : Cardinality(S) <= MaxNonZero }

\* an annotations frame: id, the identifier columns it has, a column that is
\* no term column (always 1), and the term columns
AnnFrame(tc, sid, cid, m, hasStudy, hasContrast) ==
    [columns |-> <<IdCol>> \o (IF hasStudy THEN <<StudyIdCol>> ELSE <<>>)
                   \o (IF hasContrast THEN <<ContrastIdCol>> ELSE <<>>)
                   \o <<OtherCol>> \o tc,
     nrows |-> Len(sid),
     sid |-> sid,
     cid |-> cid,
     cells |-> LET lead == 2 + (IF hasStudy THEN 1 ELSE 0) + (IF hasContrast THEN 1 ELSE 0)
               IN  [r \in 1..Len(sid) |->
                      [j \in 1..(lead + Len(tc)) |->
                          IF j < lead THEN "id"
                          ELSE IF j = lead THEN "1"
                          ELSE m[<<r, j - lead>>]]]]

\* identifier pairs of a row: two rows may share one, with or without contrast
IdPool == { <<SidPool[1], Some(ContrastC1)>>, <<SidPool[1], None>>,
            <<SidPool[2], Some(ContrastC1)>> }

\* a relation left by an earlier load of other data
StaleAnnTerms ==
    [exists |-> TRUE,
     rows |-> << [study_id |-> <<"o", "l", "d">>, contrast_id |-> Some(ContrastC1),
                  term |-> <<"o", "l", "d">>, weight |-> 3] >>,
     idx |-> AnnTermIndexes \cup {"ux_annotations_terms"},
     pk |-> TRUE, trig |-> FALSE, cols |-> AnnTermsCols]

AllFiles == {"coordinates.parquet", "metadata.parquet", "annotations.parquet"}

NoFrame == [columns |-> <<>>, nrows |-> 0]

\* the verifier has not run
IdleProbe ==
    /\ nprobes = 0
    /\ summary = <<>>
    /\ ensured = <<>>
    /\ printed = <<>>
    /\ log = <<>>
    /\ ext = {}
    /\ txfail = FALSE

\* the locals of the build functions before their first assignment
IdleLocals ==
    /\ snap = NoSnap
    /\ err = NoErr
    /\ run = 1
    /\ db0 = db
    /\ bad = 0
    /\ staged = <<>>
    /\ ix = 0
    /\ total_inserted = 0
    /\ calls = <<>>
    /\ sid_arr = <<>>
    /\ cid_arr = <<>>

\* build_annotations called on a frame, everything before it left out
InitAnnCommon ==
    /\ files = AllFiles
    /\ coordsDf = NoFrame
    /\ metaDf = NoFrame
    /\ pc = "ann_prepare"
    /\ rows_in = <<>>
    /\ buf = <<>>
    /\ IdleLocals
    /\ IdleProbe

\* many kinds of cell (at most one cell that is neither 0 nor 1), plain
\* identifiers, different terms
InitAnnValues ==
    /\ \E S \in SparseSupports(NRows, NCols) : \E f \in [S -> NonZeroCells] :
         /\ Cardinality({ p \in S : f[p] # "1" }) <= 1
         /\ annDf = AnnFrame(SubSeq(DistinctTermCols, 1, NCols),
                             SubSeq(SidPool, 1, NRows),
                             [r \in 1..NRows |-> Some(ContrastC1)],
                             SparseMatrix(NRows, NCols, f), TRUE, TRUE)
    /\ \E b \in 1..NCols :
         cfg = [if_exists |-> "replace", batch_cols |-> b, enable_json |-> FALSE]
    /\ db = EmptyDb
    /\ InitAnnCommon

\* the identifiers of the rows: the first two rows draw theirs from IdPool,
\* a further row has a study of its own
RowIds(a, b) ==
    [r \in 1..NRows |->
        IF r = 1 THEN a ELSE IF r = 2 THEN b ELSE <<SidPool[r], Some(ContrastC1)>>]

\* cells 0 or 1, rows that may share identifiers, columns that share a term
InitAnnIds ==
    /\ \E a, b \in IdPool :
       \E S \in SparseSupports(NRows, NCols) : \E f \in [S -> {"1"}] :
         annDf = AnnFrame(SubSeq(DupTermCols, 1, NCols),
                          [r \in 1..NRows |-> RowIds(a, b)[r][1]],
                          [r \in 1..NRows |-> RowIds(a, b)[r][2]],
                          SparseMatrix(NRows, NCols, f), TRUE, TRUE)
    /\ \E b \in 1..NCols :
         cfg = [if_exists |-> "replace", batch_cols |-> b, enable_json |-> TRUE]
    /\ db = [EmptyDb EXCEPT !.annotations_terms = StaleAnnTerms]
    /\ InitAnnCommon

InitAnn == InitAnnValues \/ InitAnnIds

NextAnn ==
    \/ AnnPrepare
    \/ AnnCreate
    \/ AnnIds
    \/ AnnBatch
    \/ AnnIndex
    \/ AnnUnique
    \/ AnnPk
    \/ AnnJson
    \/ BackendFails

SpecAnn == InitAnn /\ [][NextAnn]_vars

----------------------------------------------------------------------------
(* Claims about build_annotations *)

Count(seq, x) == Cardinality({ k \in 1..Len(seq) : seq[k] = x })

AllButLast(seq) == SubSeq(seq, 1, Len(seq) - 1)

\* the cells whose value is a finite number above zero, and that number
PositiveTokens == {"1", "2", "3"}
TokenWeight(x) == CASE x = "1" -> 1 [] x = "2" -> 2 [] x = "3" -> 3

\* the cells (row, term column) of the source that hold such a value
PositiveCells ==
    { p \in (1..annDf.nrows) \X Range(TermCols(annDf)) :
        annDf.cells[p[1]][p[2]] \in PositiveTokens }

\* the record the source holds in such a cell
CellRecord(p) ==
    [study_id |-> annDf.sid[p[1]], contrast_id |-> annDf.cid[p[1]],
     term |-> TermOf(annDf.columns[p[2]]),
     weight |-> TokenWeight(annDf.cells[p[1]][p[2]])]

\* every batch of the frame has been through the loop
Streamed ==
    /\ pc \in {"ann_loop", "ann_unique", "ann_pk", "ann_json", "done", "aborted"}
    /\ TermCols(annDf) # <<>>
    /\ ix >= Len(TermCols(annDf))

\* C1: once all batches are streamed, annotations_terms holds one record for
\* every cell with a finite value above zero and no other record (each record
\* as often as cells give it), and total_inserted is the number of those cells.
SparsityPreservation ==
    Streamed =>
        /\ \A rec \in Range(db.annotations_terms.rows) \cup { CellRecord(p) : p \in PositiveCells } :
              Count(db.annotations_terms.rows, rec)
                = Cardinality({ p \in PositiveCells : CellRecord(p) = rec })
        /\ Len(db.annotations_terms.rows) = Cardinality(PositiveCells)
        /\ total_inserted = Cardinality(PositiveCells)

\* a finished load of a frame that holds a record next to zero cells and a cell
\* that is negative, NaN, infinite or no number
SparsityWitness ==
    /\ pc = "done"
    /\ Len(db.annotations_terms.rows) >= 1
    /\ \E r \in 1..annDf.nrows : \E c \in Range(TermCols(annDf)) :
          annDf.cells[r][c] \in {"-1", "nan", "inf", "abc"}

\* C2: the records handed to copy_terms over all batches are the records of
\* one batch that spans all term columns, whatever batch_cols is.
BatchingInvariance ==
    Streamed =>
        LET all == TermRows(annDf, annDf.sid, annDf.cid, TermCols(annDf))
            got == Flatten(calls)
        IN  /\ Len(got) = Len(all)
            /\ \A rec \in Range(all) \cup Range(got) : Count(got, rec) = Count(all, rec)

\* a finished load that took two copy_terms calls, the last batch narrower
\* than batch_cols
BatchingWitness ==
    /\ pc = "done"
    /\ Len(calls) >= 2
    /\ cfg.batch_cols > 1
    /\ Len(TermCols(annDf)) % cfg.batch_cols # 0

\* two records are one (study_id, contrast_id, term); an absent contrast_id
\* equals an absent one
SameTriple(a, b) ==
    /\ a.study_id = b.study_id
    /\ a.contrast_id = b.contrast_id
    /\ a.term = b.term

\* the source gives two records for one triple
SourceDuplicates ==
    \E p, q \in PositiveCells : p # q /\ SameTriple(CellRecord(p), CellRecord(q))

\* C4: a completed load leaves no two records with one (study_id, contrast_id,
\* term), an absent contrast_id included; a source with two records for one
\* triple never gets past the unique index and primary key, so never completes.
Uniqueness ==
    /\ pc = "done" =>
          \A a, b \in 1..Len(db.annotations_terms.rows) :
              a # b => ~SameTriple(db.annotations_terms.rows[a], db.annotations_terms.rows[b])
    /\ SourceDuplicates => pc \notin {"ann_json", "done"}

\* the key build refused two records of one triple whose contrast_id is absent
UniquenessWitness ==
    /\ pc = "aborted"
    /\ err.kind = "IntegrityError"
    /\ \E a, b \in 1..Len(db.annotations_terms.rows) :
          /\ a # b
          /\ SameTriple(db.annotations_terms.rows[a], db.annotations_terms.rows[b])
          /\ ~db.annotations_terms.rows[a].contrast_id.some

\* the records of the first n term columns, in column order
RecordsOfFirst(n) ==
    TermRows(annDf, annDf.sid, annDf.cid,
             SubSeq(TermCols(annDf), 1, Min(n, Len(TermCols(annDf)))))

\* C5: during the load the committed annotations_terms is the records of the
\* column batches streamed so far, whole and in column order; when the backend
\* refuses a batch, none of its records is committed, copy_terms raises, no
\* index exists and neither the loop nor the index build goes on.
BatchAtomicity ==
    /\ pc \in {"ann_loop", "ann_unique", "ann_pk", "ann_json", "done"} =>
          /\ Committed.annotations_terms.rows = Flatten(calls)
          /\ Flatten(calls) = RecordsOfFirst(ix)
    /\ (pc = "aborted" /\ err.kind = "DataError") =>
          /\ Committed.annotations_terms.rows = Flatten(AllButLast(calls))
          /\ Flatten(AllButLast(calls)) = RecordsOfFirst(ix)
          /\ calls[Len(calls)] # <<>>
          /\ db.annotations_terms.idx = {}
          /\ ~db.annotations_terms.pk
          /\ ~ENABLED AnnBatch
          /\ ~ENABLED AnnIndex

\* the backend refused the second batch after it had committed the first
BatchAtomicityWitness ==
    /\ pc = "aborted"
    /\ err.kind = "DataError"
    /\ Len(calls) >= 2
    /\ db.annotations_terms.rows # <<>>

----------------------------------------------------------------------------
(* copy_terms on its own: the row stream and what the backend reads from it *)

\* lines 180-185
CopyWrite ==
    /\ pc = "copy_write"
    /\ buf' = Serialize(rows_in)
    /\ pc' = "copy_send"
    /\ UNCHANGED << db, snap, err, rows_in, probeVars, srcVars, runVars, coordVars, annVars >>

\* lines 186-196
CopySend ==
    /\ pc = "copy_send"
    /\ LET res == CopyFrom(db, buf, TRUE)
       IN  IF res.ok
           THEN /\ db' = res.db
                /\ pc' = "copy_done"
                /\ UNCHANGED << snap, err >>
           ELSE Raise("DataError", <<>>)
    /\ UNCHANGED << copyVars, probeVars, srcVars, runVars, coordVars, annVars >>

\* the characters of a field: a letter, the delimiter, the row terminator, the
\* escape character and the letter of the reserved token
CopyAlphabet == {"a", "\t", "\n", "\\", "N"}

\* the strings of at most MaxStrLen characters
Strs == UNION { [1..m -> CopyAlphabet] : m \in 0..MaxStrLen }

\* what .strip().lower() can return
TermStrs == { t \in Strs : Strip(t) = t /\ LowerStr(t) = t }

PlainStudy == <<"s">>
PlainTerm == <<"t">>

\* one record, one of its three strings free and the other two plain
CopyRecords ==
    { [study_id |-> x, contrast_id |-> c, term |-> PlainTerm, weight |-> w] :
        x \in Strs, c \in {None, Some(ContrastC1)}, w \in {1, 2} }
    \cup { [study_id |-> PlainStudy, contrast_id |-> Some(x), term |-> PlainTerm, weight |-> w] :
        x \in Strs, w \in {1, 2} }
    \cup { [study_id |-> PlainStudy, contrast_id |-> c, term |-> t, weight |-> w] :
        t \in TermStrs, c \in {None, Some(ContrastC1)}, w \in {1, 2} }

InitCopy ==
    /\ rows_in \in { <<r>> : r \in CopyRecords }
    /\ buf = <<>>
    /\ db = [EmptyDb EXCEPT !.annotations_terms = NewTable(AnnTermsCols)]
    /\ cfg = [if_exists |-> "replace", batch_cols |-> 1, enable_json |-> FALSE]
    /\ annDf = NoFrame
    /\ files = AllFiles
    /\ coordsDf = NoFrame
    /\ metaDf = NoFrame
    /\ pc = "copy_write"
    /\ IdleLocals
    /\ IdleProbe

NextCopy == CopyWrite \/ CopySend

SpecCopy == InitCopy /\ [][NextCopy]_vars

\* C3: a row stream the backend accepts reads back as the records that were
\* serialized, field by field, an absent contrast_id as absent; a record whose
\* fields hold the delimiter, a row terminator or the reserved token is never
\* read back as another record.
StreamRoundTrip ==
    pc = "copy_done" => db.annotations_terms.rows = rows_in

----------------------------------------------------------------------------
(* check_db.py: the feature verifier *)

\* a probe: its key in the summary, what it is (a plain statement, CREATE
\* EXTENSION, the look into pg_extension), the extension it names and the
\* extensions its statement needs
Probe(key, kind, name, needs) ==
    [key |-> key, kind |-> kind, ext |-> name, needs |-> needs]

\* main, check_tsvector, check_pgvector, check_postgis: the calls of run, in order
Probes ==
    << Probe("env.server_version", "query", "", {}),
       Probe("env.current_database", "query", "", {}),
       Probe("tsvector.type_exists", "query", "", {}),
       Probe("tsvector.to_tsvector", "query", "", {}),
       Probe("pgvector.enable", "enable", "vector", {}),
       Probe("pgvector.installed", "installed", "vector", {}),
       Probe("pgvector.type_present", "query", "", {}),
       Probe("pgvector.distance_op", "query", "", {"vector"}),
       Probe("postgis.enable", "enable", "postgis", {}),
       Probe("postgis.installed", "installed", "postgis", {}),
       Probe("postgis.version_fn", "query", "", {"postgis"}),
       Probe("postgis.geometry_ops", "query", "", {"postgis"}) >>

\* execution_options(isolation_level="AUTOCOMMIT")
Autocommit == TRUE

\* the backend's answer to a probe's statement on its own merits: up is whether
\* the backend can run it at all (the extension is installable, the connection
\* is there); a statement that names a missing extension's objects fails
Answer(p, up) ==
    IF ~up THEN [key |-> p.key, ok |-> FALSE, error |-> "OperationalError", rows |-> <<>>]
    ELSE IF ~(p.needs \subseteq ext)
         THEN [key |-> p.key, ok |-> FALSE, error |-> "UndefinedObject", rows |-> <<>>]
    ELSE [key |-> p.key, ok |-> TRUE, error |-> "",
          rows |-> IF p.kind = "enable" THEN <<>>
                   ELSE IF p.kind = "installed"
                        THEN (IF p.ext \in ext THEN <<p.ext>> ELSE <<>>)
                   ELSE <<"row">>]

\* what conn.execute gives: in a failed transaction every statement fails
Execute(p, up) ==
    IF txfail
    THEN [key |-> p.key, ok |-> FALSE, error |-> "InFailedSqlTransaction", rows |-> <<>>]
    ELSE Answer(p, up)

\* summary[key] = ...
Put(s, key, v) == (key :> v) @@ s

\* run with an except clause that does not match the driver's error: the
\* exception leaves run and main
RunProbeUncaught ==
    /\ pc = "probe"
    /\ nprobes < Len(Probes)
    /\ \E up \in BOOLEAN :
         LET p == Probes[nprobes + 1]
             res == Execute(p, up)
         IN  /\ log' = Append(log, Answer(p, up))
             /\ ext' = IF p.kind = "enable" /\ res.ok THEN ext \cup {p.ext} ELSE ext
             /\ IF res.ok
                THEN /\ summary' = Put(summary, p.key, [ok |-> TRUE, result |-> SubSeq(res.rows, 1, Min(1, Len(res.rows)))])
                     /\ nprobes' = nprobes + 1
                     /\ UNCHANGED << pc, err >>
                ELSE /\ pc' = "aborted"
                     /\ err' = [kind |-> res.error, items |-> <<>>, at |-> pc]
                     /\ UNCHANGED << summary, nprobes >>
             /\ ensured' = IF p.kind = "installed" /\ res.ok THEN Put(ensured, p.ext, res.ok) ELSE ensured
             /\ txfail' = IF res.ok THEN txfail ELSE ~Autocommit
    /\ UNCHANGED << printed, db, snap, copyVars, srcVars, runVars, coordVars, annVars >>

\* run (lines 19-47) on the next probe; ensure_extension (lines 49-63) returns
\* the ok of its second run
RunProbe ==
    /\ pc = "probe"
    /\ nprobes < Len(Probes)
    /\ \E up \in BOOLEAN :
         LET p == Probes[nprobes + 1]
             res == Execute(p, up)
         IN  /\ log' = Append(log, Answer(p, up))
             /\ ext' = IF p.kind = "enable" /\ res.ok THEN ext \cup {p.ext} ELSE ext
             /\ summary' =
                  IF res.ok
                  THEN Put(summary, p.key, [ok |-> TRUE, result |-> SubSeq(res.rows, 1, Min(1, Len(res.rows)))])
                  ELSE Put(summary, p.key, [ok |-> FALSE, error |-> res.error])
             /\ ensured' = IF p.kind = "installed" THEN Put(ensured, p.ext, res.ok) ELSE ensured
             \* conn.exec_driver_sql("ROLLBACK") after a failure
             /\ txfail' = IF res.ok THEN txfail ELSE FALSE
    /\ nprobes' = nprobes + 1
    /\ UNCHANGED << pc, err, printed, db, snap, copyVars, srcVars, runVars, coordVars, annVars >>

\* lines 127-128
PrintSummary ==
    /\ pc = "probe"
    /\ nprobes = Len(Probes)
    /\ printed' = Append(printed, summary)
    /\ pc' = "probes_done"
    /\ UNCHANGED << nprobes, summary, ensured, log, ext, txfail, err, db, snap,
                    copyVars, srcVars, runVars, coordVars, annVars >>

\* a session of the verifier against a backend with any of the extensions
InitProbe ==
    /\ pc = "probe"
    /\ nprobes = 0
    /\ summary = <<>>
    /\ ensured = <<>>
    /\ printed = <<>>
    /\ log = <<>>
    /\ ext \in SUBSET {"vector", "postgis"}
    /\ txfail = FALSE
    /\ db = EmptyDb
    /\ cfg = [if_exists |-> "replace", batch_cols |-> 1, enable_json |-> FALSE]
    /\ files = AllFiles
    /\ coordsDf = NoFrame
    /\ metaDf = NoFrame
    /\ annDf = NoFrame
    /\ rows_in = <<>>
    /\ buf = <<>>
    /\ IdleLocals

NextProbe == RunProbe \/ PrintSummary

SpecProbe == InitProbe /\ [][NextProbe]_vars

\* C7: whatever probes the backend fails, every probe run so far has its entry,
\* ok exactly when the backend accepted that probe's own statement and with the
\* error text when it did not; a failure never stops the run: the next probe is
\* always run, and the summary printed at the end holds all probes.
ProbeIsolation ==
    /\ Len(log) = nprobes
    /\ \A j \in 1..nprobes :
          /\ log[j].key = Probes[j].key
          /\ Probes[j].key \in DOMAIN summary
          /\ summary[Probes[j].key].ok = log[j].ok
          /\ ~log[j].ok => summary[Probes[j].key].error = log[j].error
    /\ pc \in {"probe", "probes_done"}
    /\ (pc = "probe" /\ nprobes < Len(Probes)) => ENABLED RunProbe
    /\ pc = "probes_done" =>
          /\ nprobes = Len(Probes)
          /\ printed = <<summary>>
          /\ DOMAIN summary = { Probes[j].key : j \in 1..Len(Probes) }

\* a finished session in which a probe failed and a later one succeeded
ProbeIsolationWitness ==
    /\ pc = "probes_done"
    /\ \E a, b \in 1..Len(Probes) :
          a < b /\ ~summary[Probes[a].key].ok /\ summary[Probes[b].key].ok

----------------------------------------------------------------------------
(* The whole loader: main() run on a schema in any state, once or again *)

Modes == {"replace", "append"}

\* the loader is started again, with either mode, on what the last run left
Rerun ==
    /\ pc \in {"done", "aborted"}
    /\ run < MaxRuns
    /\ run' = run + 1
    /\ \E m \in Modes : cfg' = [cfg EXCEPT !.if_exists = m]
    /\ db0' = db
    /\ pc' = "main_setup"
    /\ err' = NoErr
    /\ bad' = 0
    /\ staged' = <<>>
    /\ ix' = 0
    /\ total_inserted' = 0
    /\ calls' = <<>>
    /\ sid_arr' = <<>>
    /\ cid_arr' = <<>>
    /\ UNCHANGED << db, snap, srcVars, copyVars, probeVars >>

CoordRow(s, x, y, z) == [study_id |-> s, x |-> x, y |-> y, z |-> z]

CoordFrame(cols, rows) == [columns |-> cols, nrows |-> Len(rows), rows |-> rows]

\* (s1, 1, 2, 3), (s2, NaN, 2, 3), (s3, 2, 3, 1)
ExampleCoords ==
    CoordFrame(MustHave \o << OtherCol >>,
               << CoordRow(SidPool[1], "1", "2", "3"),
                  CoordRow(SidPool[2], "nan", "2", "3"),
                  CoordRow(SidPool[3], "2", "3", "1") >>)

\* what a coordinate cell may hold: numbers, NaN, the infinities, a string
\* that is no number, None
CoordTokens == {"1", "-1", "nan", "inf", "-inf", "abc", "None"}

\* two rows; one coordinate of the second row is any token
ValueCoords(p, t) ==
    CoordFrame(MustHave,
               << CoordRow(SidPool[1], "1", "2", "3"),
                  CoordRow(SidPool[2], IF p = 1 THEN t ELSE "2",
                                       IF p = 2 THEN t ELSE "0",
                                       IF p = 3 THEN t ELSE "3") >>)

\* a frame that lacks the columns of must_have at the positions in S
LackingCoords(S) ==
    CoordFrame(SelectSeq(MustHave, LAMBDA c : \A k \in S : MustHave[k] # c)
                 \o << OtherCol >>,
               << CoordRow(SidPool[1], "1", "2", "3") >>)

MetaFrame(cols, numeric, cells) ==
    [columns |-> cols, numeric |-> numeric, nrows |-> Len(cells), cells |-> cells]

\* columns " Title" (text) and "Pub Year" (numeric)
ExampleMeta ==
    MetaFrame(<< <<" ", "T", "i">>, <<"P", " ", "Y">> >>, << FALSE, TRUE >>,
              << <<"alpha", "1">>, <<"NULL", "2">> >>)

MetaFrames ==
    { ExampleMeta,
      \* numeric columns only
      MetaFrame(<< <<"n">>, <<"P", " ", "Y">> >>, << TRUE, TRUE >>,
                << <<"1", "2">> >>),
      \* two text columns
      MetaFrame(<< <<"T", "i">>, <<"a", "b", " ">> >>, << FALSE, FALSE >>,
                << <<"alpha", "beta">>, <<"NULL", "NULL">> >>),
      \* two names that normalise to one
      MetaFrame(<< <<"T", "i">>, <<" ", "t", "I">> >>, << FALSE, FALSE >>,
                << <<"alpha", "beta">> >>) }

\* 2 rows and 2 term columns, every cell 1 but those f gives
SmallAnn(tc, cids, f, hasStudy, hasContrast) ==
    AnnFrame(tc, SubSeq(SidPool, 1, 2), cids,
             [p \in (1..2) \X (1..Len(tc)) |-> IF p \in DOMAIN f THEN f[p] ELSE "1"],
             hasStudy, hasContrast)

BothContrasts == << Some(ContrastC1), Some(ContrastC1) >>

ExampleAnn ==
    SmallAnn(SubSeq(DistinctTermCols, 1, 2), BothContrasts,
             (<<1, 2>> :> "0"), TRUE, TRUE)

AnnFrames ==
    { ExampleAnn,
      \* values that are no finite number above zero
      SmallAnn(SubSeq(DistinctTermCols, 1, 2), BothContrasts,
               (<<1, 1>> :> "nan") @@ (<<2, 2>> :> "-1"), TRUE, TRUE),
      \* a row without contrast
      SmallAnn(SubSeq(DistinctTermCols, 1, 2), << Some(ContrastC1), None >>,
               (<<1, 2>> :> "0"), TRUE, TRUE),
      \* no contrast_id column
      SmallAnn(SubSeq(DistinctTermCols, 1, 2), << None, None >>,
               (<<1, 2>> :> "0"), TRUE, FALSE),
      \* two columns of one term
      SmallAnn(SubSeq(DupTermCols, 1, 2), BothContrasts,
               (<<2, 2>> :> "0"), TRUE, TRUE),
      \* no study_id column
      SmallAnn(SubSeq(DistinctTermCols, 1, 2), BothContrasts,
               (<<1, 2>> :> "0"), FALSE, TRUE),
      \* no term column
      SmallAnn(<<>>, BothContrasts, << >>, TRUE, TRUE) }

\* relations left by an earlier complete load of other data
StaleCoordinates ==
    [exists |-> TRUE,
     rows |-> << [study_id |-> <<"o", "l", "d">>, geom |-> <<3, 3, 3, Srid>>] >>,
     idx |-> CoordIndexes, pk |-> FALSE, trig |-> FALSE, cols |-> CoordCols]

StaleMetadata ==
    [exists |-> TRUE,
     rows |-> << [vals |-> <<"old">>, fts |-> Some(<<"old">>)] >>,
     idx |-> MetaIndexes, pk |-> FALSE, trig |-> TRUE,
     cols |-> << [name |-> <<"o", "l", "d">>, type |-> "text"],
                 [name |-> FtsCol, type |-> "tsvector"] >>]

StaleDb ==
    [coordinates |-> StaleCoordinates, coordinates_stage |-> Absent,
     metadata |-> StaleMetadata, annotations_terms |-> StaleAnnTerms,
     annotations_json |-> Absent]

\* one of the three sources varies, the other two are the examples; or a
\* file is not there
InitSources ==
    \/ /\ files = AllFiles
       /\ \/ \E p \in 1..3 : \E t \in CoordTokens : coordsDf = ValueCoords(p, t)
          \/ \E S \in SUBSET (1..4) : S # {} /\ coordsDf = LackingCoords(S)
       /\ metaDf = ExampleMeta
       /\ annDf = ExampleAnn
    \/ /\ files = AllFiles
       /\ coordsDf = ExampleCoords
       /\ metaDf \in MetaFrames
       /\ annDf = ExampleAnn
    \/ /\ files = AllFiles
       /\ coordsDf = ExampleCoords
       /\ metaDf = ExampleMeta
       /\ annDf \in AnnFrames
    \/ /\ files \in (SUBSET AllFiles) \ {AllFiles}
       /\ coordsDf = ExampleCoords
       /\ metaDf = ExampleMeta
       /\ annDf = ExampleAnn

InitLoad ==
    /\ InitSources
    /\ \E m \in Modes : \E j \in BOOLEAN :
         cfg = [if_exists |-> m, batch_cols |-> 1, enable_json |-> j]
    /\ db \in {EmptyDb, StaleDb}
    /\ pc = "main_setup"
    /\ rows_in = <<>>
    /\ buf = <<>>
    /\ IdleLocals
    /\ IdleProbe

NextLoad ==
    \/ MainSetup
    \/ MainLoad
    \/ CoordPrepare
    \/ CoordStage
    \/ CoordToSql
    \/ CoordCreate
    \/ CoordInsert
    \/ CoordIndex
    \/ MetaCreate
    \/ MetaToSql
    \/ MetaFts
    \/ AnnPrepare
    \/ AnnCreate
    \/ AnnIds
    \/ AnnBatch
    \/ AnnIndex
    \/ AnnUnique
    \/ AnnPk
    \/ AnnJson
    \/ BackendFails
    \/ Rerun

SpecLoad == InitLoad /\ [][NextLoad]_vars

----------------------------------------------------------------------------
(* Claims about the whole loader *)

NoIndexYet(t) == t.idx = {} /\ ~t.pk

\* the run starts the relation afresh: replace mode, or nothing was there
FreshCoordinates == cfg.if_exists = "replace" \/ ~db0.coordinates.exists
FreshMetadata == cfg.if_exists = "replace" \/ ~db0.metadata.exists

\* a step that adds an index or the primary key to relation t
AddsIndex(t, u) == (u.exists /\ t.exists) /\ (~(u.idx \subseteq t.idx) \/ (u.pk /\ ~t.pk))

\* the original reading of C6: in every run and in both modes no index and no
\* primary key is on coordinates, metadata or annotations_terms when the run's
\* rows are written into it.
IndexAfterLoad ==
    [][ /\ CoordInsert => NoIndexYet(db.coordinates)
        /\ MetaToSql => NoIndexYet(db.metadata)
        /\ AnnBatch => NoIndexYet(db.annotations_terms) ]_vars

\* C6: annotations_terms in every run and mode, and coordinates and metadata
\* in replace mode or when the relation was not there when the run started,
\* carry no index and no primary key when the run's rows are written (the
\* staging relation never carries one); and a step adds an index or the
\* primary key only at the positions behind the run's writes.
IndexAfterLoadFresh ==
    [][ /\ (CoordInsert /\ FreshCoordinates) => NoIndexYet(db.coordinates)
        /\ CoordToSql => NoIndexYet(db.coordinates_stage)
        /\ (MetaToSql /\ FreshMetadata) => NoIndexYet(db.metadata)
        /\ AnnBatch => NoIndexYet(db.annotations_terms)
        /\ AddsIndex(db.coordinates, db'.coordinates) => pc = "coord_index"
        /\ AddsIndex(db.metadata, db'.metadata) => pc = "meta_fts"
        /\ AddsIndex(db.annotations_terms, db'.annotations_terms) =>
              /\ pc \in {"ann_loop", "ann_unique", "ann_pk"}
              /\ ix >= Len(TermCols(annDf)) ]_vars

\* replace mode on a schema whose coordinates carried indexes: the run's rows
\* are in, the indexes are not yet
IndexAfterLoadWitness ==
    /\ pc = "coord_index"
    /\ cfg.if_exists = "replace"
    /\ db0.coordinates.idx # {}
    /\ db.coordinates.rows # <<>>
    /\ db.coordinates.idx = {}

ConfigErrors == {"FileNotFoundError", "KeyError", "RuntimeError"}

\* C8: a run that ends with a missing file or a missing required column names
\* what is missing and has not dropped, created or written a relation of
\* that dataset.
FailFast ==
    (pc = "aborted" /\ err.kind \in ConfigErrors) =>
        /\ err.at = "main_load" =>
              /\ db = db0
              /\ Len(err.items) = 1 /\ err.items[1] \in AllFiles \ files
        /\ err.at = "coord_prepare" =>
              /\ db.coordinates = db0.coordinates
              /\ db.coordinates_stage = db0.coordinates_stage
              /\ err.items # <<>>
              /\ Range(err.items) = Range(MustHave) \ ColumnSet(coordsDf)
        /\ err.at \in {"ann_prepare", "ann_ids"} =>
              /\ db.annotations_terms = db0.annotations_terms
              /\ db.annotations_json = db0.annotations_json

\* the tokens that parse to a finite real number, and that number
FiniteTokens == {"0", "1", "2", "3", "-1"}
FiniteValue(x) ==
    CASE x = "0" -> 0 [] x = "1" -> 1 [] x = "2" -> 2 [] x = "3" -> 3 [] x = "-1" -> -1

\* the source rows whose x, y and z are all finite, in source order
FiniteRows ==
    SelectSeq(coordsDf.rows,
              LAMBDA r : r.x \in FiniteTokens /\ r.y \in FiniteTokens /\ r.z \in FiniteTokens)

\* those rows as geometries
FiniteGeoms ==
    [k \in 1..Len(FiniteRows) |->
        [study_id |-> FiniteRows[k].study_id,
         geom |-> << FiniteValue(FiniteRows[k].x), FiniteValue(FiniteRows[k].y),
                     FiniteValue(FiniteRows[k].z), Srid >>]]

\* C10: what build_coordinates stages and what it adds to coordinates are the
\* finite source rows, in source order; the drop count is the number of the
\* other rows; build_coordinates raises for a value never.
FiniteFiltering ==
    /\ pc \in {"coord_stage", "coord_to_sql", "coord_create", "coord_insert", "coord_index"} =>
          /\ Len(staged) = Len(FiniteRows)
          /\ \A k \in 1..Len(staged) :
                MakePoint(staged[k]) = FiniteGeoms[k]
          /\ bad = coordsDf.nrows - Len(FiniteRows)
    /\ pc = "coord_index" =>
          db.coordinates.rows =
              (IF cfg.if_exists = "replace" THEN <<>> ELSE snap.db.coordinates.rows)
                \o FiniteGeoms
    /\ (pc = "aborted" /\ err.at = "coord_prepare") => Missing(coordsDf) # <<>>

\* what a load of the sources leaves on an empty schema
ExpectedCoordinates ==
    [exists |-> TRUE, rows |-> FiniteGeoms, idx |-> CoordIndexes,
     pk |-> FALSE, trig |-> FALSE, cols |-> CoordCols]

SourceTextCols ==
    SelectSeq([j \in 1..Len(metaDf.columns) |-> j], LAMBDA j : ~metaDf.numeric[j])

ExpectedMetadata ==
    [exists |-> TRUE,
     rows |-> [r \in 1..metaDf.nrows |->
                 [vals |-> metaDf.cells[r],
                  fts |-> IF SourceTextCols = <<>> THEN None
                          ELSE Some([k \in 1..Len(SourceTextCols) |->
                                       IF metaDf.cells[r][SourceTextCols[k]] = "NULL"
                                       THEN ""
                                       ELSE metaDf.cells[r][SourceTextCols[k]]])]],
     idx |-> IF SourceTextCols = <<>> THEN {} ELSE MetaIndexes,
     pk |-> FALSE,
     trig |-> SourceTextCols # <<>>,
     cols |-> MetaColDefs(metaDf)]

\* C9: a full load in replace mode that succeeds leaves coordinates, metadata
\* and annotations_terms as the sources and the configuration alone fix them,
\* whatever the schema held before (nothing, another load, what an aborted
\* run left), and leaves no staging relation.
IdempotentReplace ==
    (pc = "done" /\ cfg.if_exists = "replace") =>
        /\ db.coordinates = ExpectedCoordinates
        /\ db.metadata = ExpectedMetadata
        /\ ~db.coordinates_stage.exists
        /\ db.annotations_terms.exists
        /\ db.annotations_terms.idx = AnnTermIndexes \cup {"ux_annotations_terms"}
        /\ db.annotations_terms.pk
        /\ db.annotations_terms.cols = AnnTermsCols
        /\ Len(db.annotations_terms.rows) = Cardinality(PositiveCells)
        /\ \A rec \in Range(db.annotations_terms.rows) \cup { CellRecord(p) : p \in PositiveCells } :
              Count(db.annotations_terms.rows, rec)
                = Cardinality({ p \in PositiveCells : CellRecord(p) = rec })

\* a second run, in replace mode, finished on what an aborted run left: a
\* filled staging relation
IdempotentReplaceWitness ==
    /\ pc = "done"
    /\ cfg.if_exists = "replace"
    /\ run >= 2
    /\ db0.coordinates_stage.rows # <<>>

----------------------------------------------------------------------------
(* Claims about ensure_extension *)

\* the positions in Probes of the looks into pg_extension that have been run
InstalledRun == { j \in 1..nprobes : Probes[j].kind = "installed" }

\* C11: for every extension ensure_extension has checked, the entry
\* <prefix>.installed is ok, and ensure_extension returned true, only if the
\* extension is in the backend's catalog after the enable attempt; when the
\* enable probe failed and the extension is absent, the installed entry is
\* not ok.
ExtensionPresence ==
    \A j \in InstalledRun :
        /\ summary[Probes[j].key].ok => Probes[j].ext \in ext
        /\ ensured[Probes[j].ext] => Probes[j].ext \in ext
        /\ (~summary[Probes[j - 1].key].ok /\ Probes[j].ext \notin ext) =>
              ~summary[Probes[j].key].ok

====
